---- MODULE Spec2Model ----
(***************************************************************************)
(* Model of the EMP registry and per-minute resolution of                  *)
(* src/simulation/attack/emp.rs (Emps::new and Emps::simulate), and of the  *)
(* session and password handlers of src/api/auth/mod.rs.                   *)
(*                                                                         *)
(* Option<T> is modelled as a sequence: None is <<>>, Some(v) is <<v>>.    *)
(* A Result is a record [ok, err, key]: Ok has ok = TRUE.                  *)
(* The HashMap / HashSet iteration orders, which Rust leaves unspecified,  *)
(* are inputs of the actions (a permutation chosen with \E).               *)
(*                                                                         *)
(* Spec: Emps::new, then calls of Emps::simulate for any minute.           *)
(* SpecDriver: Emps::new, then one call of Emps::simulate per minute.      *)
(* SpecAuth: the six routes of api/auth served to one client.              *)
(***************************************************************************)
EXTENDS Integers, Sequences, FiniteSets, TLC

VARIABLES
    pc,              \* "setup" before Emps::new, "running" after Ok, "aborted" after Err; "auth" in SpecAuth
    attackers,       \* HashMap<i32, Attacker>: the live roster
    defenders,       \* DefenseManager.defenders: occupied cell -> hits received
    buildings_grid,  \* BuildingsManager.buildings_grid[x][y] -> building id
    emps,            \* Emps.0 : HashMap<i32, HashSet<Emp>>
    new_call,        \* the Emps::new call: its arguments and its Result (the Ok payload is emps)
    call,            \* the last simulate call: arguments, pre-state, result, trace of collaborator calls
    calls,           \* number of simulate calls made so far
    history,         \* per minute resolved by the driver: the events that fired, the events skipped
    session,         \* actix Session of the client: key -> value
    users,           \* table user: id -> row
    otp_sessions,    \* the OTP service: session id -> code it sent
    last             \* the last request of src/api/auth: handler, inputs, response

auth_vars == <<session, users, otp_sessions, last>>

emp_vars == <<pc, attackers, defenders, buildings_grid, emps, new_call, call, calls, history>>

vars == <<pc, attackers, defenders, buildings_grid, emps, new_call, call, calls, history,
          session, users, otp_sessions, last>>

----------------------------------------------------------------------------
(* Bounds *)

MAP_SIZE == 10
MaxMinute == 2
MaxCalls == 1
MaxPath == 2

----------------------------------------------------------------------------
(* Values *)

None == <<>>
Some(v) == <<v>>
IsSome(o) == Len(o) = 1
Unwrap(o) == o[1]

Ok == [ok |-> TRUE, err |-> "", key |-> 0]
Err(e, k) == [ok |-> FALSE, err |-> e, key |-> k]

NoCall == [made |-> FALSE]

Pow2(n) == n * n

\* attack_type table as loaded at emp.rs:32: id -> AttackType
AttackTypes ==
    (1 :> [attack_radius |-> 1, attack_damage |-> 50]) @@
    (2 :> [attack_radius |-> 2, attack_damage |-> 30]) @@
    (3 :> [attack_radius |-> 0, attack_damage |-> 20]) @@
    (4 :> [attack_radius |-> 0 - 1, attack_damage |-> 10])

\* AttackerPath rows
Waypoint(id, x, y, is_emp, emp_type, emp_time) ==
    [id |-> id, x_coord |-> x, y_coord |-> y, is_emp |-> is_emp,
     emp_type |-> emp_type, emp_time |-> emp_time]

\* Waypoints attacker 1 may carry; an id names one waypoint.
Pool1 ==
    { Waypoint(1, 2, 2, TRUE, Some(1), Some(1)),
      Waypoint(2, 2, 3, FALSE, Some(1), Some(1)),
      Waypoint(3, 0, 1, TRUE, Some(2), Some(1)),
      Waypoint(4, 0 - 1, MAP_SIZE - 1, TRUE, Some(1), Some(2)),
      Waypoint(5, 2, 2, TRUE, Some(3), Some(2)),
      Waypoint(6, 1, 2, TRUE, None, Some(1)),
      Waypoint(7, 1, 2, TRUE, Some(1), None),
      Waypoint(8, 3, 3, TRUE, Some(9), Some(1)),
      Waypoint(9, 2, 2, TRUE, Some(4), Some(2)),
      Waypoint(10, 3, 3, TRUE, Some(9), Some(2)) }

\* Paths of attacker 2; the first one comes back to the waypoint it armed
Paths2 ==
    { << Waypoint(21, 3, 2, TRUE, Some(3), Some(2)),
         Waypoint(22, 2, 3, TRUE, Some(1), Some(1)),
         Waypoint(22, 2, 3, TRUE, Some(1), Some(1)) >>,
      << Waypoint(23, 2, 2, FALSE, None, None),
         Waypoint(24, 1, 1, TRUE, None, None) >> }

\* Paths of attacker 1: up to MaxPath waypoints of Pool1, in the order of their ids
Paths1 ==
    { p \in UNION { [1..k -> Pool1] : k \in 0..MaxPath } :
        \A i, j \in 1..Len(p) : i < j => p[i].id < p[j].id }

NewAttacker(path) ==
    [path |-> path, reached |-> 0, path_in_current_frame |-> <<>>, health |-> 100]

Perms(S) == { f \in [1..Cardinality(S) -> S] : \A i, j \in 1..Cardinality(S) : i # j => f[i] # f[j] }

----------------------------------------------------------------------------
(* Emps::new *)

Emp(path, emp_type, attacker_id) ==
    [path_id |-> path.id, x_coord |-> path.x_coord, y_coord |-> path.y_coord,
     radius |-> emp_type.attack_radius, damage |-> emp_type.attack_damage,
     attacker_id |-> attacker_id]

\* variant: the bucket is replaced by the new event instead of being extended
InsertEmp_Overwrite(m, emp_time, emp) ==
    IF emp_time \in DOMAIN m
    THEN [m EXCEPT ![emp_time] = {emp}]
    ELSE m @@ (emp_time :> {emp})

\* variant: two events are taken as equal when cell and attacker agree
InsertEmp_ByCell(m, emp_time, emp) ==
    IF emp_time \in DOMAIN m
    THEN IF \E e \in m[emp_time] :
              /\ e.x_coord = emp.x_coord /\ e.y_coord = emp.y_coord
              /\ e.attacker_id = emp.attacker_id
         THEN m
         ELSE [m EXCEPT ![emp_time] = @ \cup {emp}]
    ELSE m @@ (emp_time :> {emp})

\* emps.entry(emp_time).or_insert_with(HashSet::new); emps.get_mut(&emp_time).unwrap().insert(emp)
InsertEmp(m, emp_time, emp) ==
    IF emp_time \in DOMAIN m
    THEN [m EXCEPT ![emp_time] = @ \cup {emp}]
    ELSE m @@ (emp_time :> {emp})

\* variant: a flagged waypoint without type or time is skipped
RECURSIVE NewPath_SkipMalformed(_, _, _, _, _)
NewPath_SkipMalformed(m, emp_types, attacker_id, attacker_path, i) ==
    IF i > Len(attacker_path) THEN [ret |-> Ok, emps |-> m]
    ELSE LET path == attacker_path[i] IN
         IF ~path.is_emp
         THEN NewPath_SkipMalformed(m, emp_types, attacker_id, attacker_path, i + 1)
         ELSE IF IsSome(path.emp_type) /\ IsSome(path.emp_time)
         THEN LET emp_type == Unwrap(path.emp_type)
                  emp_time == Unwrap(path.emp_time) IN
              IF emp_type \notin DOMAIN emp_types
              THEN [ret |-> Err("KeyError", emp_type), emps |-> m]
              ELSE NewPath_SkipMalformed(
                       InsertEmp(m, emp_time, Emp(path, emp_types[emp_type], attacker_id)),
                       emp_types, attacker_id, attacker_path, i + 1)
         ELSE NewPath_SkipMalformed(m, emp_types, attacker_id, attacker_path, i + 1)

\* variant: a waypoint whose type is not in the catalog is skipped
RECURSIVE NewPath_SkipUnknownType(_, _, _, _, _)
NewPath_SkipUnknownType(m, emp_types, attacker_id, attacker_path, i) ==
    IF i > Len(attacker_path) THEN [ret |-> Ok, emps |-> m]
    ELSE LET path == attacker_path[i] IN
         IF ~path.is_emp
         THEN NewPath_SkipUnknownType(m, emp_types, attacker_id, attacker_path, i + 1)
         ELSE IF IsSome(path.emp_type) /\ IsSome(path.emp_time)
         THEN LET emp_type == Unwrap(path.emp_type)
                  emp_time == Unwrap(path.emp_time) IN
              IF emp_type \notin DOMAIN emp_types
              THEN NewPath_SkipUnknownType(m, emp_types, attacker_id, attacker_path, i + 1)
              ELSE NewPath_SkipUnknownType(
                       InsertEmp(m, emp_time, Emp(path, emp_types[emp_type], attacker_id)),
                       emp_types, attacker_id, attacker_path, i + 1)
         ELSE [ret |-> Err("EmpDetailsError", path.id), emps |-> m]

\* the inner loop over one attacker's path, from waypoint i on
RECURSIVE NewPath(_, _, _, _, _)
NewPath(m, emp_types, attacker_id, attacker_path, i) ==
    IF i > Len(attacker_path) THEN [ret |-> Ok, emps |-> m]
    ELSE LET path == attacker_path[i] IN
         IF ~path.is_emp THEN NewPath(m, emp_types, attacker_id, attacker_path, i + 1)
         ELSE IF IsSome(path.emp_type) /\ IsSome(path.emp_time)
         THEN LET emp_type == Unwrap(path.emp_type)
                  emp_time == Unwrap(path.emp_time) IN
              IF emp_type \notin DOMAIN emp_types
              THEN [ret |-> Err("KeyError", emp_type), emps |-> m]
              ELSE NewPath(InsertEmp(m, emp_time, Emp(path, emp_types[emp_type], attacker_id)),
                           emp_types, attacker_id, attacker_path, i + 1)
         ELSE [ret |-> Err("EmpDetailsError", path.id), emps |-> m]

\* the outer loop over attackers.iter(), in the iteration order `order`
RECURSIVE NewLoop(_, _, _, _, _)
NewLoop(m, emp_types, atts, order, k) ==
    IF k > Len(order) THEN [ret |-> Ok, emps |-> m]
    ELSE LET r == NewPath(m, emp_types, order[k], atts[order[k]].path, 1) IN
         IF r.ret.ok THEN NewLoop(r.emps, emp_types, atts, order, k + 1) ELSE r

\* Emps::new: Ok(Emps(emps)) or the error; on an error the local map is dropped
EmpsNew(load_ok, atts, order) ==
    IF ~load_ok THEN [ret |-> Err("DieselError", 0), emps |-> <<>>]
    ELSE LET r == NewLoop(<<>>, AttackTypes, atts, order, 1) IN
         IF r.ret.ok THEN r ELSE [ret |-> r.ret, emps |-> <<>>]

----------------------------------------------------------------------------
(* Collaborators of Emps::simulate *)

\* Attacker::is_planted(path_id) -> Result<bool>: fails when the attacker has no
\* such waypoint; a waypoint is planted once the attacker has reached it
IsPlanted(attacker, path_id) ==
    LET idx == { i \in 1..Len(attacker.path) : attacker.path[i].id = path_id } IN
    IF idx = {} THEN [ok |-> FALSE, val |-> FALSE]
    ELSE [ok |-> TRUE, val |-> (CHOOSE i \in idx : \A j \in idx : i <= j) <= attacker.reached]

\* Attacker::get_damage(damage, position)
AttackerGetDamage(attacker, damage, position) ==
    [attacker EXCEPT !.health = @ - damage]

\* DefenseManager.defenders.get_damage(x, y): a no-op on a cell without a defender
DefendersGetDamage(d, x, y) ==
    IF <<x, y>> \in DOMAIN d THEN [d EXCEPT ![<<x, y>>] = @ + 1] ELSE d

----------------------------------------------------------------------------
(* Emps::simulate *)

\* a..=b as the sequence of its values
RangeInclusive(a, b) == [i \in 1..(IF b >= a THEN b - a + 1 ELSE 0) |-> a + i - 1]

\* variant: the loops run over the magnitude of the radius
BoxCells_AbsRadius(emp) ==
    LET radius == IF emp.radius < 0 THEN 0 - emp.radius ELSE emp.radius
        xs == RangeInclusive(emp.x_coord - radius, emp.x_coord + radius)
        ys == RangeInclusive(emp.y_coord - radius, emp.y_coord + radius)
        n  == Len(ys)
    IN [i \in 1..(Len(xs) * n) |-> << xs[((i - 1) \div n) + 1], ys[((i - 1) % n) + 1] >>]

\* the (x, y) pairs of the two nested loops at emp.rs:101-102, in loop order
BoxCells(emp) ==
    LET radius == emp.radius
        xs == RangeInclusive(emp.x_coord - radius, emp.x_coord + radius)
        ys == RangeInclusive(emp.y_coord - radius, emp.y_coord + radius)
        n  == Len(ys)
    IN [i \in 1..(Len(xs) * n) |-> << xs[((i - 1) \div n) + 1], ys[((i - 1) % n) + 1] >>]

\* the two `continue` guards at emp.rs:103-109
InMap(x, y) == x \in 0..(MAP_SIZE - 1) /\ y \in 0..(MAP_SIZE - 1)

\* variant: the whole bounding square is kept
InCircle_Square(emp, x, y) == TRUE

InCircle(emp, x, y) ==
    LET distance == Pow2(x - emp.x_coord) + Pow2(y - emp.y_coord) IN
    ~(distance > Pow2(emp.radius))

\* variant: the scan keeps the last match it meets, the oldest entry of the trace
MatchPosition_Oldest(attacker_path, x, y) ==
    LET n == Len(attacker_path)
        hits == { p \in 0..(n - 1) :
                    /\ x = attacker_path[n - p].attacker_path.x_coord
                    /\ y = attacker_path[n - p].attacker_path.y_coord } IN
    IF hits = {} THEN 0 - 1 ELSE CHOOSE p \in hits : \A q \in hits : p >= q

\* attacker_path.iter().rev().enumerate(): the position of the first entry equal
\* to (x, y), or -1 when the scan ends without a match
MatchPosition(attacker_path, x, y) ==
    LET n == Len(attacker_path)
        hits == { p \in 0..(n - 1) :
                    /\ x = attacker_path[n - p].attacker_path.x_coord
                    /\ y = attacker_path[n - p].attacker_path.y_coord } IN
    IF hits = {} THEN 0 - 1 ELSE CHOOSE p \in hits : \A q \in hits : p <= q

\* variant: the position of the reversed scan is passed on as it is
PositionArg_Reversed(len, position) == position

\* attacker.path_in_current_frame.len() - 1 - position
PositionArg(len, position) == len - 1 - position

RECURSIVE SortedSeq(_)
SortedSeq(S) ==
    IF S = {} THEN <<>>
    ELSE LET m == CHOOSE x \in S : \A y \in S : x <= y IN <<m>> \o SortedSeq(S \ {m})

\* the loop over attackers.iter_mut() for one cell; each attacker is touched
\* only by its own get_damage, calls are logged by ascending attacker id
HitAttackers(atts, emp, x, y) ==
    [a \in DOMAIN atts |->
        LET position == MatchPosition(atts[a].path_in_current_frame, x, y) IN
        IF position < 0 THEN atts[a]
        ELSE AttackerGetDamage(atts[a], emp.damage,
                 PositionArg(Len(atts[a].path_in_current_frame), position))]

AttackerCalls(atts, emp, x, y) ==
    LET hit == { a \in DOMAIN atts : MatchPosition(atts[a].path_in_current_frame, x, y) >= 0 }
        ids == SortedSeq(hit) IN
    [i \in 1..Len(ids) |->
        [emp |-> emp, x |-> x, y |-> y, attacker |-> ids[i], damage |-> emp.damage,
         position |-> PositionArg(Len(atts[ids[i]].path_in_current_frame),
                                  MatchPosition(atts[ids[i]].path_in_current_frame, x, y))]]

\* variant: the Defense collaborator is called only for a cell a defender occupies
SimCell_OnlyOccupied(w, emp, x, y) ==
    IF ~InMap(x, y) THEN w
    ELSE IF ~InCircle(emp, x, y) THEN w
    ELSE LET building_id == w.buildings_grid[x][y] IN
         [w EXCEPT !.defenders = DefendersGetDamage(@, x, y),
                   !.def_calls = IF <<x, y>> \in DOMAIN w.defenders
                                 THEN Append(@, [emp |-> emp, x |-> x, y |-> y]) ELSE @,
                   !.attackers = HitAttackers(@, emp, x, y),
                   !.att_calls = @ \o AttackerCalls(w.attackers, emp, x, y),
                   !.grid_reads = Append(@, [emp |-> emp, x |-> x, y |-> y, id |-> building_id]),
                   !.affected_buildings =
                        IF building_id # 0 THEN @ \cup {building_id} ELSE @]

\* variant: the attacker that owns the event is left out of the roster scan
SimCell_SkipOwner(w, emp, x, y) ==
    IF ~InMap(x, y) THEN w
    ELSE IF ~InCircle(emp, x, y) THEN w
    ELSE LET building_id == w.buildings_grid[x][y]
             others == [a \in DOMAIN w.attackers \ {emp.attacker_id} |-> w.attackers[a]] IN
         [w EXCEPT !.defenders = DefendersGetDamage(@, x, y),
                   !.def_calls = Append(@, [emp |-> emp, x |-> x, y |-> y]),
                   !.attackers = HitAttackers(others, emp, x, y) @@ w.attackers,
                   !.att_calls = @ \o AttackerCalls(others, emp, x, y),
                   !.grid_reads = Append(@, [emp |-> emp, x |-> x, y |-> y, id |-> building_id]),
                   !.affected_buildings =
                        IF building_id # 0 THEN @ \cup {building_id} ELSE @]

\* variant: the lookup of the building id clears the cell of the grid
SimCell_ClearsGrid(w, emp, x, y) ==
    IF ~InMap(x, y) THEN w
    ELSE IF ~InCircle(emp, x, y) THEN w
    ELSE LET building_id == w.buildings_grid[x][y] IN
         [w EXCEPT !.defenders = DefendersGetDamage(@, x, y),
                   !.def_calls = Append(@, [emp |-> emp, x |-> x, y |-> y]),
                   !.attackers = HitAttackers(@, emp, x, y),
                   !.att_calls = @ \o AttackerCalls(w.attackers, emp, x, y),
                   !.grid_reads = Append(@, [emp |-> emp, x |-> x, y |-> y, id |-> building_id]),
                   !.buildings_grid = [@ EXCEPT ![x][y] = 0],
                   !.affected_buildings =
                        IF building_id # 0 THEN @ \cup {building_id} ELSE @]

\* the body of the inner loop for one (x, y); w is the battlefield with the call trace
SimCell(w, emp, x, y) ==
    IF ~InMap(x, y) THEN w
    ELSE IF ~InCircle(emp, x, y) THEN w
    ELSE LET building_id == w.buildings_grid[x][y] IN
         [w EXCEPT !.defenders = DefendersGetDamage(@, x, y),
                   !.def_calls = Append(@, [emp |-> emp, x |-> x, y |-> y]),
                   !.attackers = HitAttackers(@, emp, x, y),
                   !.att_calls = @ \o AttackerCalls(w.attackers, emp, x, y),
                   !.grid_reads = Append(@, [emp |-> emp, x |-> x, y |-> y, id |-> building_id]),
                   !.affected_buildings =
                        IF building_id # 0 THEN @ \cup {building_id} ELSE @]

RECURSIVE SimCells(_, _, _, _)
SimCells(w, emp, cells, i) ==
    IF i > Len(cells) THEN w
    ELSE SimCells(SimCell(w, emp, cells[i][1], cells[i][2]), emp, cells, i + 1)

\* one planted emp: emp.rs:97-149
SimEmp(w, emp) ==
    SimCells([w EXCEPT !.affected_buildings = {}], emp, BoxCells(emp), 1)

\* variant: the is_planted answer is ignored, every resolved event fires
RECURSIVE SimLoop_NoGate(_, _, _)
SimLoop_NoGate(w, order, k) ==
    IF k > Len(order) THEN [ret |-> Ok, w |-> w]
    ELSE LET emp == order[k] IN
         IF emp.attacker_id \notin DOMAIN w.attackers
         THEN [ret |-> Err("KeyError", emp.attacker_id), w |-> w]
         ELSE LET planted == IsPlanted(w.attackers[emp.attacker_id], emp.path_id) IN
              IF ~planted.ok THEN [ret |-> Err("PathError", emp.path_id), w |-> w]
              ELSE SimLoop_NoGate(SimEmp(w, emp), order, k + 1)

\* variant: the error of an unresolved event is returned after the rest of the bucket ran
RECURSIVE SimLoop_DeferError(_, _, _)
SimLoop_DeferError(w, order, k) ==
    IF k > Len(order) THEN [ret |-> Ok, w |-> w]
    ELSE LET emp == order[k] IN
         IF emp.attacker_id \notin DOMAIN w.attackers
         THEN [ret |-> Err("KeyError", emp.attacker_id),
               w |-> SimLoop_DeferError(w, order, k + 1).w]
         ELSE LET planted == IsPlanted(w.attackers[emp.attacker_id], emp.path_id) IN
              IF ~planted.ok
              THEN [ret |-> Err("PathError", emp.path_id),
                    w |-> SimLoop_DeferError(w, order, k + 1).w]
              ELSE IF ~planted.val THEN SimLoop_DeferError(w, order, k + 1)
              ELSE SimLoop_DeferError(SimEmp(w, emp), order, k + 1)

\* variant: an unplanted event ends the call with Ok instead of moving to the next event
RECURSIVE SimLoop_ReturnOnUnplanted(_, _, _)
SimLoop_ReturnOnUnplanted(w, order, k) ==
    IF k > Len(order) THEN [ret |-> Ok, w |-> w]
    ELSE LET emp == order[k] IN
         IF emp.attacker_id \notin DOMAIN w.attackers
         THEN [ret |-> Err("KeyError", emp.attacker_id), w |-> w]
         ELSE LET planted == IsPlanted(w.attackers[emp.attacker_id], emp.path_id) IN
              IF ~planted.ok THEN [ret |-> Err("PathError", emp.path_id), w |-> w]
              ELSE IF ~planted.val THEN [ret |-> Ok, w |-> w]
              ELSE SimLoop_ReturnOnUnplanted(SimEmp(w, emp), order, k + 1)

\* variant: an event whose attacker is not in the roster is skipped
RECURSIVE SimLoop_SkipMissing(_, _, _)
SimLoop_SkipMissing(w, order, k) ==
    IF k > Len(order) THEN [ret |-> Ok, w |-> w]
    ELSE LET emp == order[k] IN
         IF emp.attacker_id \notin DOMAIN w.attackers
         THEN SimLoop_SkipMissing(w, order, k + 1)
         ELSE LET planted == IsPlanted(w.attackers[emp.attacker_id], emp.path_id) IN
              IF ~planted.ok THEN [ret |-> Err("PathError", emp.path_id), w |-> w]
              ELSE IF ~planted.val THEN SimLoop_SkipMissing(w, order, k + 1)
              ELSE SimLoop_SkipMissing(SimEmp(w, emp), order, k + 1)

\* the loop over the bucket in the iteration order `order`: emp.rs:85-186
RECURSIVE SimLoop(_, _, _)
SimLoop(w, order, k) ==
    IF k > Len(order) THEN [ret |-> Ok, w |-> w]
    ELSE LET emp == order[k] IN
         IF emp.attacker_id \notin DOMAIN w.attackers
         THEN [ret |-> Err("KeyError", emp.attacker_id), w |-> w]
         ELSE LET planted == IsPlanted(w.attackers[emp.attacker_id], emp.path_id) IN
              IF ~planted.ok THEN [ret |-> Err("PathError", emp.path_id), w |-> w]
              ELSE IF ~planted.val THEN SimLoop(w, order, k + 1)
              ELSE SimLoop(SimEmp(w, emp), order, k + 1)

\* variant: without the contains_key test the lookup of the bucket fails
EmpsSimulate_NoKeyTest(m, minute, order, w) ==
    IF minute \notin DOMAIN m THEN [ret |-> Err("KeyError", minute), w |-> w]
    ELSE SimLoop(w, order, 1)

\* the events of a set in some sequence
RECURSIVE SeqOf(_)
SeqOf(S) ==
    IF S = {} THEN <<>>
    ELSE LET e == CHOOSE x \in S : TRUE IN <<e>> \o SeqOf(S \ {e})

\* variant: the call also resolves the events of the minutes before `minute`
EmpsSimulate_CatchUp(m, minute, order, w) ==
    LET earlier == UNION { m[t] : t \in { u \in DOMAIN m : u < minute } } IN
    SimLoop(w, order \o SeqOf(earlier), 1)

\* Emps::simulate(minute, buildings_manager, defense_manager, attackers)
EmpsSimulate(m, minute, order, w) ==
    IF minute \notin DOMAIN m THEN [ret |-> Ok, w |-> w]
    ELSE SimLoop(w, order, 1)

\* the arguments of a call, with an empty call trace
World(d, a, g) ==
    [defenders |-> d, attackers |-> a, buildings_grid |-> g,
     def_calls |-> <<>>, att_calls |-> <<>>, grid_reads |-> <<>>, affected_buildings |-> {}]

Orders(m, minute) == IF minute \in DOMAIN m THEN Perms(m[minute]) ELSE { <<>> }

NoHistory == [fired |-> {}, skipped |-> {}]

\* the state of the auth service while the simulation runs
AuthIdle ==
    /\ session = <<>>
    /\ users = <<>>
    /\ otp_sessions = <<>>
    /\ last = NoCall

----------------------------------------------------------------------------

Init ==
    /\ pc = "setup"
    /\ \E p1 \in Paths1, p2 \in Paths2 :
          attackers = (1 :> NewAttacker(p1)) @@ (2 :> NewAttacker(p2))
    /\ defenders = ( <<2, 2>> :> 0 ) @@ ( <<1, 2>> :> 0 ) @@ ( <<0, 0>> :> 0 )
    /\ buildings_grid = [x \in 0..(MAP_SIZE - 1) |-> [y \in 0..(MAP_SIZE - 1) |->
                            IF x = 2 /\ y \in {1, 2} THEN 7 ELSE IF x = 0 THEN 8 ELSE 0]]
    /\ emps = <<>>
    /\ new_call = NoCall
    /\ call = NoCall
    /\ calls = 0
    /\ history = NoHistory
    /\ AuthIdle

Build ==
    /\ pc = "setup"
    /\ \E load_ok \in BOOLEAN, order \in Perms(DOMAIN attackers) :
          LET r == EmpsNew(load_ok, attackers, order) IN
          /\ new_call' = [made |-> TRUE, load_ok |-> load_ok, attackers |-> attackers,
                          ret |-> r.ret]
          /\ emps' = r.emps
          /\ pc' = IF r.ret.ok THEN "running" ELSE "aborted"
    /\ UNCHANGED <<attackers, defenders, buildings_grid, call, calls, history, auth_vars>>

Simulate ==
    /\ pc = "running"
    /\ calls < MaxCalls
    /\ \E minute \in 0..MaxMinute : \E order \in Orders(emps, minute) :
          LET r == EmpsSimulate(emps, minute, order, World(defenders, attackers, buildings_grid)) IN
          /\ defenders' = r.w.defenders
          /\ attackers' = r.w.attackers
          /\ buildings_grid' = r.w.buildings_grid
          /\ call' = [made |-> TRUE, minute |-> minute, order |-> order, ret |-> r.ret,
                      pre |-> [defenders |-> defenders, attackers |-> attackers,
                               buildings_grid |-> buildings_grid, emps |-> emps],
                      def_calls |-> r.w.def_calls, att_calls |-> r.w.att_calls,
                      grid_reads |-> r.w.grid_reads]
    /\ calls' = calls + 1
    /\ UNCHANGED <<pc, emps, new_call, history, auth_vars>>

\* an attacker steps to the next waypoint of its path, if one is left
Step(attacker) ==
    IF attacker.reached < Len(attacker.path)
    THEN [attacker EXCEPT
            !.reached = @ + 1,
            !.path_in_current_frame =
                Append(@, [attacker_path |-> attacker.path[attacker.reached + 1]])]
    ELSE attacker

\* every event of the registry resolves its attacker and its waypoint in the roster
InSync ==
    \A t \in DOMAIN emps : \A e \in emps[t] :
        /\ e.attacker_id \in DOMAIN attackers
        /\ IsPlanted(attackers[e.attacker_id], e.path_id).ok

\* the driver moves every attacker of the roster one waypoint on
Move ==
    /\ pc = "running"
    /\ \E a \in DOMAIN attackers : attackers[a].reached < Len(attackers[a].path)
    /\ attackers' = [a \in DOMAIN attackers |-> Step(attackers[a])]
    /\ call' = NoCall
    /\ UNCHANGED <<pc, defenders, buildings_grid, emps, new_call, calls, history, auth_vars>>

\* an attacker leaves the live roster
RemoveAttacker ==
    /\ pc = "running"
    /\ InSync
    /\ \E a \in DOMAIN attackers :
          attackers' = [b \in DOMAIN attackers \ {a} |-> attackers[b]]
    /\ call' = NoCall
    /\ UNCHANGED <<pc, defenders, buildings_grid, emps, new_call, calls, history, auth_vars>>

\* the roster holds, under the same id, an attacker that does not carry the path
ReplaceAttacker ==
    /\ pc = "running"
    /\ InSync
    /\ \E a \in DOMAIN attackers :
          /\ attackers[a].path # <<>>
          /\ attackers' = [attackers EXCEPT ![a] = NewAttacker(<<>>)]
    /\ call' = NoCall
    /\ UNCHANGED <<pc, defenders, buildings_grid, emps, new_call, calls, history, auth_vars>>

\* the events a call gave an effect: a defender call, a unit hit or a grid lookup
FiredIn(w) ==
    { w.def_calls[i].emp : i \in 1..Len(w.def_calls) }
      \cup { w.att_calls[i].emp : i \in 1..Len(w.att_calls) }
      \cup { w.grid_reads[i].emp : i \in 1..Len(w.grid_reads) }

\* the events of the minute whose owner reports is_planted = false when the call starts
UnplantedAt(m, minute, atts) ==
    IF minute \notin DOMAIN m THEN {}
    ELSE { e \in m[minute] :
             /\ e.attacker_id \in DOMAIN atts
             /\ IsPlanted(atts[e.attacker_id], e.path_id).ok
             /\ ~IsPlanted(atts[e.attacker_id], e.path_id).val }

\* the driver resolves the next minute: one call per minute, minutes 1, 2, ...
Tick ==
    /\ pc = "running"
    /\ calls < MaxMinute
    /\ LET minute == calls + 1 IN
       \E order \in Orders(emps, minute) :
          LET r == EmpsSimulate(emps, minute, order, World(defenders, attackers, buildings_grid)) IN
          /\ defenders' = r.w.defenders
          /\ attackers' = r.w.attackers
          /\ buildings_grid' = r.w.buildings_grid
          /\ call' = [made |-> TRUE, minute |-> minute, order |-> order, ret |-> r.ret,
                      pre |-> [defenders |-> defenders, attackers |-> attackers,
                               buildings_grid |-> buildings_grid, emps |-> emps],
                      def_calls |-> r.w.def_calls, att_calls |-> r.w.att_calls,
                      grid_reads |-> r.w.grid_reads]
          /\ history' =
                [fired |-> history.fired
                             \cup { [emp |-> e, minute |-> minute] : e \in FiredIn(r.w) },
                 skipped |-> history.skipped \cup UnplantedAt(emps, minute, attackers)]
    /\ calls' = calls + 1
    /\ UNCHANGED <<pc, emps, new_call, auth_vars>>

Next == Build \/ Simulate \/ Move \/ RemoveAttacker \/ ReplaceAttacker

Spec == Init /\ [][Next]_vars

\* the simulation under a driver that resolves every minute once, in order
NextDriver == Build \/ Tick \/ Move \/ RemoveAttacker \/ ReplaceAttacker

SpecDriver == Init /\ [][NextDriver]_vars

----------------------------------------------------------------------------
(* What a simulate call did, read from its record *)

\* order[k] cannot be resolved in the roster the call received
Faulty(k) ==
    LET emp == call.order[k] IN
    \/ emp.attacker_id \notin DOMAIN call.pre.attackers
    \/ ~IsPlanted(call.pre.attackers[emp.attacker_id], emp.path_id).ok

\* the owner of order[k] reports is_planted(path_id) == true / false
ReportsPlanted(k) ==
    /\ ~Faulty(k)
    /\ IsPlanted(call.pre.attackers[call.order[k].attacker_id], call.order[k].path_id).val

ReportsUnplanted(k) ==
    /\ ~Faulty(k)
    /\ ~IsPlanted(call.pre.attackers[call.order[k].attacker_id], call.order[k].path_id).val

\* order[k] was reached by the loop and was planted: the event is processed
Processed(k) ==
    /\ \A j \in 1..k : ~Faulty(j)
    /\ ReportsPlanted(k)

SeqRange(q) == { q[i] : i \in 1..Len(q) }

DefCells(emp)  == { <<r.x, r.y>> : r \in { c \in SeqRange(call.def_calls) : c.emp = emp } }
AttCells(emp)  == { <<r.x, r.y>> : r \in { c \in SeqRange(call.att_calls) : c.emp = emp } }
GridCells(emp) == { <<r.x, r.y>> : r \in { c \in SeqRange(call.grid_reads) : c.emp = emp } }

\* a window of cells that contains every bounding square of the catalog's radii
Window == ((0 - 3)..(MAP_SIZE + 2)) \X ((0 - 3)..(MAP_SIZE + 2))

\* the clipped disc of the claim, computed from its definition
Disc(cx, cy, r) ==
    { c \in Window : /\ (c[1] - cx) * (c[1] - cx) + (c[2] - cy) * (c[2] - cy) <= r * r
                     /\ 0 <= c[1] /\ c[1] < MAP_SIZE
                     /\ 0 <= c[2] /\ c[2] < MAP_SIZE }

----------------------------------------------------------------------------
(* Claims *)

\* C1: a processed planted event with radius r >= 0 centred at (cx, cy) gives a
\* cell its effects (defender get_damage, unit damage, grid lookup) iff the cell
\* lies in the disc of radius r clipped to the map; the corner (cx+r, cy+r) is
\* not affected when r > 0, and r = 1 at (2, 2) affects exactly the five cells
\* of the plus.
C1_CircularFootprint ==
    call.made =>
      \A k \in 1..Len(call.order) :
        LET emp == call.order[k] IN
        (Processed(k) /\ emp.radius >= 0) =>
          /\ DefCells(emp) = Disc(emp.x_coord, emp.y_coord, emp.radius)
          /\ GridCells(emp) = Disc(emp.x_coord, emp.y_coord, emp.radius)
          /\ AttCells(emp) \subseteq Disc(emp.x_coord, emp.y_coord, emp.radius)
          /\ (emp.radius > 0 =>
                <<emp.x_coord + emp.radius, emp.y_coord + emp.radius>> \notin DefCells(emp))
          /\ ((emp.x_coord = 2 /\ emp.y_coord = 2 /\ emp.radius = 1) =>
                DefCells(emp) = { <<2, 2>>, <<1, 2>>, <<3, 2>>, <<2, 1>>, <<2, 3>> })

\* a call that processed the radius-1 event at (2, 2) and hit a unit standing in it
C1_Witness ==
    /\ call.made
    /\ \E k \in 1..Len(call.order) :
         /\ Processed(k)
         /\ call.order[k].radius = 1 /\ call.order[k].x_coord = 2 /\ call.order[k].y_coord = 2
         /\ Cardinality(DefCells(call.order[k])) = 5
         /\ AttCells(call.order[k]) # {}

\* C2: an event of the resolved minute whose owner reports is_planted = false
\* causes no defender call, no unit damage call and no grid lookup, and the
\* call does not fail because of it (a failure comes from another event).
C2_Gating ==
    call.made =>
      \A k \in 1..Len(call.order) :
        ReportsUnplanted(k) =>
          /\ DefCells(call.order[k]) = {}
          /\ AttCells(call.order[k]) = {}
          /\ GridCells(call.order[k]) = {}
          /\ (~call.ret.ok => \E j \in 1..Len(call.order) : j # k /\ Faulty(j))

\* a successful call that skipped an unplanted event while another event fired
C2_Witness ==
    /\ call.made
    /\ call.ret.ok
    /\ \E k \in 1..Len(call.order) : ReportsUnplanted(k) /\ call.order[k].radius > 0
    /\ call.def_calls # <<>>

\* the event Emps::new has to derive from a waypoint with type and time
EventOf(attacker_id, path) ==
    [path_id |-> path.id, x_coord |-> path.x_coord, y_coord |-> path.y_coord,
     radius |-> AttackTypes[path.emp_type[1]].attack_radius,
     damage |-> AttackTypes[path.emp_type[1]].attack_damage,
     attacker_id |-> attacker_id]

\* C3: after a successful build every flagged waypoint with type and time has
\* exactly one event (its attacker id, path_id, coordinates, catalog radius and
\* damage) in the bucket of its emp_time and in no other bucket, and no event
\* references the path_id of a waypoint that is not flagged.
C3_RegistryComplete ==
    (new_call.made /\ new_call.ret.ok) =>
      \A a \in DOMAIN new_call.attackers :
        \A i \in 1..Len(new_call.attackers[a].path) :
          LET path == new_call.attackers[a].path[i] IN
          /\ (path.is_emp /\ Len(path.emp_type) = 1 /\ Len(path.emp_time) = 1) =>
                /\ path.emp_time[1] \in DOMAIN emps
                /\ \A t \in DOMAIN emps :
                     EventOf(a, path) \in emps[t] <=> t = path.emp_time[1]
                /\ Cardinality({ e \in emps[path.emp_time[1]] :
                                   e.attacker_id = a /\ e.path_id = path.id }) = 1
          /\ ~path.is_emp =>
                \A t \in DOMAIN emps : \A e \in emps[t] : e.path_id # path.id

\* a registry built from triggers of both attackers in one minute, triggers of
\* two minutes and an unflagged waypoint
C3_Witness ==
    /\ new_call.made /\ new_call.ret.ok
    /\ \E t \in DOMAIN emps : \E e1, e2 \in emps[t] : e1.attacker_id # e2.attacker_id
    /\ Cardinality(DOMAIN emps) = 2
    /\ \E a \in DOMAIN new_call.attackers :
         \E i \in 1..Len(new_call.attackers[a].path) : ~new_call.attackers[a].path[i].is_emp

\* the indices of the trace the attacker had when the call started that lie on (x, y)
TraceOf(a) == call.pre.attackers[a].path_in_current_frame

Matches(a, x, y) ==
    { i \in 1..Len(TraceOf(a)) :
        /\ TraceOf(a)[i].attacker_path.x_coord = x
        /\ TraceOf(a)[i].attacker_path.y_coord = y }

Latest(S) == CHOOSE i \in S : \A j \in S : j <= i

\* C4 as stated: the position passed to get_damage is the distance of the
\* matched entry from the last entry of path_in_current_frame (the number of
\* entries after it, 0 for the most recent entry).
C4_DistanceFromLast ==
    call.made =>
      \A i \in 1..Len(call.att_calls) :
        LET r == call.att_calls[i] IN
        r.position = Len(TraceOf(r.attacker)) - Latest(Matches(r.attacker, r.x, r.y))

\* C4 as the code has it: the position passed to get_damage is the index of the
\* matched entry counted from the oldest entry of path_in_current_frame (the
\* number of entries before it); it is len - 1 for the most recent entry.
C4_IndexFromOldest ==
    call.made =>
      \A i \in 1..Len(call.att_calls) :
        LET r == call.att_calls[i]
            m == Latest(Matches(r.attacker, r.x, r.y)) IN
        /\ r.position = m - 1
        /\ (m = Len(TraceOf(r.attacker)) => r.position = Len(TraceOf(r.attacker)) - 1)

\* a unit hit on the most recent entry of a trace of two or more entries
C4_Witness ==
    /\ call.made
    /\ \E i \in 1..Len(call.att_calls) :
         LET r == call.att_calls[i] IN
         /\ Len(TraceOf(r.attacker)) >= 2
         /\ Latest(Matches(r.attacker, r.x, r.y)) = Len(TraceOf(r.attacker))
         /\ r.position >= 1

\* C5: for one processed event and one affected cell, a unit whose trace holds
\* the cell at several positions gets exactly one get_damage call for the cell,
\* and the call is made for the latest position of the trace on the cell.
C5_HitOnce ==
    call.made =>
      \A k \in 1..Len(call.order) :
        Processed(k) =>
          \A c \in DefCells(call.order[k]) : \A a \in DOMAIN call.pre.attackers :
            LET recs == { i \in 1..Len(call.att_calls) :
                            /\ call.att_calls[i].emp = call.order[k]
                            /\ call.att_calls[i].attacker = a
                            /\ call.att_calls[i].x = c[1]
                            /\ call.att_calls[i].y = c[2] } IN
            Cardinality(Matches(a, c[1], c[2])) >= 2 =>
              /\ Cardinality(recs) = 1
              /\ \A i \in recs : call.att_calls[i].position + 1 = Latest(Matches(a, c[1], c[2]))

\* a unit was hit on a cell that its trace holds twice
C5_Witness ==
    /\ call.made
    /\ \E i \in 1..Len(call.att_calls) :
         LET r == call.att_calls[i] IN
         Cardinality(Matches(r.attacker, r.x, r.y)) >= 2

\* the first event of the iteration that cannot be resolved
FirstFaulty ==
    CHOOSE k \in 1..Len(call.order) : Faulty(k) /\ \A j \in 1..(k - 1) : ~Faulty(j)

\* the events behind the records of the three call traces
EmpsWithEffect ==
    { r.emp : r \in SeqRange(call.def_calls) } \cup { r.emp : r \in SeqRange(call.att_calls) }
        \cup { r.emp : r \in SeqRange(call.grid_reads) }

BattlefieldUnchanged ==
    /\ defenders = call.pre.defenders
    /\ attackers = call.pre.attackers
    /\ buildings_grid = call.pre.buildings_grid

\* C6 as stated: when simulate returns the error of an attacker id missing from
\* the roster, the call has mutated no defender, attacker or building state, not
\* even through other events of the minute; when Emps::new fails there is no
\* registry.
C6_NoPartialState ==
    /\ (call.made /\ ~call.ret.ok /\ call.ret.err = "KeyError") => BattlefieldUnchanged
    /\ (new_call.made /\ ~new_call.ret.ok) => (emps = <<>> /\ pc = "aborted")

\* C6 as the code has it: when simulate returns an error, nothing was done for
\* the failing event nor for any event after it in the iteration: every effect
\* belongs to a planted event iterated before the failing one, units and
\* defenders no call names are as before, the grid is as before, and with no
\* planted event before the failing one the battlefield is unchanged; when
\* Emps::new fails there is no registry.
C6_NoEffectPastFailure ==
    /\ (call.made /\ ~call.ret.ok) =>
          /\ \A e \in EmpsWithEffect :
                \E j \in 1..(FirstFaulty - 1) : call.order[j] = e /\ ReportsPlanted(j)
          /\ DOMAIN attackers = DOMAIN call.pre.attackers
          /\ \A a \in DOMAIN attackers :
                (\A r \in SeqRange(call.att_calls) : r.attacker # a)
                    => attackers[a] = call.pre.attackers[a]
          /\ DOMAIN defenders = DOMAIN call.pre.defenders
          /\ \A c \in DOMAIN defenders :
                (\A r \in SeqRange(call.def_calls) : <<r.x, r.y>> # c)
                    => defenders[c] = call.pre.defenders[c]
          /\ buildings_grid = call.pre.buildings_grid
          /\ (\A j \in 1..(FirstFaulty - 1) : ~ReportsPlanted(j)) => BattlefieldUnchanged
    /\ (new_call.made /\ ~new_call.ret.ok) => (emps = <<>> /\ pc = "aborted")

\* a call that failed on a missing attacker after a planted event had damaged a defender
C6_Witness ==
    /\ call.made /\ ~call.ret.ok /\ call.ret.err = "KeyError"
    /\ call.def_calls # <<>>
    /\ defenders # call.pre.defenders

\* the call of the record, made again from its pre-state in the iteration order o
Replay(o) ==
    EmpsSimulate(call.pre.emps, call.minute, o,
                 World(call.pre.defenders, call.pre.attackers, call.pre.buildings_grid))

SameBattlefield(w) ==
    /\ w.defenders = defenders
    /\ w.attackers = attackers
    /\ w.buildings_grid = buildings_grid

\* C7 as stated: whatever the iteration order of the events of the minute, the
\* call returns the same value and leaves the same defender, attacker and
\* building state.
C7_OrderIndependent ==
    call.made =>
      \A o \in Orders(call.pre.emps, call.minute) :
        Replay(o).ret = call.ret /\ SameBattlefield(Replay(o).w)

\* C7 as the code has it: every iteration order gives the same outcome, success
\* or failure, and when the call succeeds every order leaves the same defender,
\* attacker and building state.
C7_OrderIndependentOnSuccess ==
    call.made =>
      \A o \in Orders(call.pre.emps, call.minute) :
        /\ Replay(o).ret.ok = call.ret.ok
        /\ call.ret.ok => (Replay(o).ret = call.ret /\ SameBattlefield(Replay(o).w))

\* a successful call in which two processed events damaged the same defender
C7_Witness ==
    /\ call.made /\ call.ret.ok
    /\ \E j, k \in 1..Len(call.order) :
         /\ j # k /\ Processed(j) /\ Processed(k)
         /\ DefCells(call.order[j]) \cap DefCells(call.order[k]) \cap DOMAIN defenders # {}

\* C8: simulate returns an error iff some event of the minute names an attacker
\* id missing from the roster or its owner's is_planted fails; the error is the
\* one of the first such event; every other call returns Ok.
C8_ResolveOutcome ==
    call.made =>
      /\ ~call.ret.ok <=> \E k \in 1..Len(call.order) : Faulty(k)
      /\ ~call.ret.ok =>
            LET emp == call.order[FirstFaulty] IN
            call.ret = IF emp.attacker_id \notin DOMAIN call.pre.attackers
                       THEN Err("KeyError", emp.attacker_id)
                       ELSE Err("PathError", emp.path_id)

\* a call that failed on a missing attacker although another event of the minute was resolved
C8_Witness ==
    /\ call.made /\ ~call.ret.ok
    /\ \E k \in 1..Len(call.order) : call.order[k].attacker_id \notin DOMAIN call.pre.attackers
    /\ \E k \in 1..Len(call.order) : ~Faulty(k)

\* C9: a call for a minute without a bucket returns Ok, makes no collaborator
\* call and leaves defenders, attackers, buildings and the registry as they were.
C9_NoOpMinute ==
    (call.made /\ call.minute \notin DOMAIN call.pre.emps) =>
      /\ call.ret = Ok
      /\ BattlefieldUnchanged
      /\ emps = call.pre.emps
      /\ call.def_calls = <<>> /\ call.att_calls = <<>> /\ call.grid_reads = <<>>

\* a call for a minute without a bucket, with a registry that has buckets and a unit with a trace
C9_Witness ==
    /\ call.made /\ call.minute \notin DOMAIN emps
    /\ emps # <<>>
    /\ \E a \in DOMAIN attackers : attackers[a].path_in_current_frame # <<>>

\* the waypoints of the build input that are flagged without type or without time
Malformed(path) == path.is_emp /\ (Len(path.emp_type) = 0 \/ Len(path.emp_time) = 0)

\* flagged with type and time, the type missing from the catalog
UnknownType(path) ==
    /\ path.is_emp /\ Len(path.emp_type) = 1 /\ Len(path.emp_time) = 1
    /\ path.emp_type[1] \notin DOMAIN AttackTypes

BuildPaths == { new_call.attackers[a].path : a \in DOMAIN new_call.attackers }

HasMalformed == \E p \in BuildPaths : \E i \in 1..Len(p) : Malformed(p[i])

\* C10 as stated: with the catalog loaded, a flagged waypoint without emp_type
\* or emp_time makes Emps::new fail with EmpDetailsError carrying the path_id of
\* such a waypoint, and there is no registry.
C10_MalformedTrigger ==
    (new_call.made /\ new_call.load_ok /\ HasMalformed) =>
      /\ ~new_call.ret.ok
      /\ new_call.ret.err = "EmpDetailsError"
      /\ \E p \in BuildPaths : \E i \in 1..Len(p) :
            Malformed(p[i]) /\ new_call.ret.key = p[i].id
      /\ emps = <<>>

\* C10 as the code has it: a flagged waypoint without emp_type or emp_time makes
\* Emps::new fail, and there is no registry. The error is the one of the first
\* offending waypoint the iteration meets: EmpDetailsError with the path_id of a
\* waypoint that is the first offending one of its path, or KeyError with the
\* type id of a waypoint that is the first offending one of its path; it is
\* EmpDetailsError when the catalog is loaded and no waypoint has an unknown type.
C10_MalformedOrEarlierError ==
    (new_call.made /\ HasMalformed) =>
      /\ ~new_call.ret.ok
      /\ emps = <<>> /\ pc = "aborted"
      /\ new_call.ret.err = "DieselError" <=> ~new_call.load_ok
      /\ new_call.ret.err \in {"DieselError", "KeyError", "EmpDetailsError"}
      /\ new_call.ret.err = "EmpDetailsError" =>
            \E p \in BuildPaths : \E i \in 1..Len(p) :
               /\ Malformed(p[i]) /\ new_call.ret.key = p[i].id
               /\ \A j \in 1..(i - 1) : ~Malformed(p[j]) /\ ~UnknownType(p[j])
      /\ new_call.ret.err = "KeyError" =>
            \E p \in BuildPaths : \E i \in 1..Len(p) :
               /\ UnknownType(p[i]) /\ new_call.ret.key = p[i].emp_type[1]
               /\ \A j \in 1..(i - 1) : ~Malformed(p[j]) /\ ~UnknownType(p[j])
      /\ (new_call.load_ok /\ \A p \in BuildPaths : \A i \in 1..Len(p) : ~UnknownType(p[i]))
            => new_call.ret.err = "EmpDetailsError"

\* a build that failed on a waypoint without type or time after a valid trigger of the same path
C10_Witness ==
    /\ new_call.made /\ new_call.ret.err = "EmpDetailsError"
    /\ \E p \in BuildPaths : \E i \in 2..Len(p) :
         /\ Malformed(p[i]) /\ new_call.ret.key = p[i].id
         /\ p[1].is_emp /\ ~Malformed(p[1]) /\ ~UnknownType(p[1])
    /\ emps = <<>>

HasUnknownType == \E p \in BuildPaths : \E i \in 1..Len(p) : UnknownType(p[i])

\* C11 as stated: with the catalog loaded, a flagged waypoint with emp_type and
\* emp_time whose type is not in the catalog makes Emps::new fail with KeyError
\* carrying a missing type id, whatever its emp_time, and there is no registry.
C11_CatalogLookup ==
    (new_call.made /\ new_call.load_ok /\ HasUnknownType) =>
      /\ ~new_call.ret.ok
      /\ new_call.ret.err = "KeyError"
      /\ \E p \in BuildPaths : \E i \in 1..Len(p) :
            UnknownType(p[i]) /\ new_call.ret.key = p[i].emp_type[1]
      /\ emps = <<>>

\* C11 as the code has it: such a waypoint makes Emps::new fail, and there is
\* no registry. The error is KeyError with the missing type id when the catalog
\* is loaded and the waypoint is met before any flagged waypoint without type
\* or time, for every emp_time; with the catalog loaded and no waypoint without
\* type or time in any path it is always KeyError. Otherwise it is the error of
\* the offending waypoint met first.
C11_CatalogLookupOrEarlierError ==
    (new_call.made /\ HasUnknownType) =>
      /\ ~new_call.ret.ok
      /\ emps = <<>> /\ pc = "aborted"
      /\ (new_call.load_ok /\ ~HasMalformed) =>
            /\ new_call.ret.err = "KeyError"
            /\ \E p \in BuildPaths : \E i \in 1..Len(p) :
                  /\ UnknownType(p[i]) /\ new_call.ret.key = p[i].emp_type[1]
                  /\ \A j \in 1..(i - 1) : ~UnknownType(p[j])
      /\ (new_call.load_ok /\ new_call.ret.err # "KeyError") =>
            /\ new_call.ret.err = "EmpDetailsError"
            /\ \E p \in BuildPaths : \E i \in 1..Len(p) :
                  /\ Malformed(p[i]) /\ new_call.ret.key = p[i].id
                  /\ \A j \in 1..(i - 1) : ~UnknownType(p[j])

\* a build that failed with KeyError on a waypoint of unknown type scheduled at
\* minute 2, after a valid trigger of the same path
C11_Witness ==
    /\ new_call.made /\ new_call.ret.err = "KeyError" /\ new_call.ret.key = 9
    /\ \E p \in BuildPaths :
         /\ Len(p) = 2
         /\ UnknownType(p[2]) /\ p[2].emp_time = Some(2)
         /\ p[1].is_emp /\ ~Malformed(p[1]) /\ ~UnknownType(p[1])
    /\ emps = <<>>

\* the insertions of a build for minute t, one per visit of a flagged waypoint
\* with type and time: <<attacker id, index in its path>>
Insertions(t) ==
    { s \in UNION { {a} \X (1..Len(new_call.attackers[a].path)) :
                      a \in DOMAIN new_call.attackers } :
        LET path == new_call.attackers[s[1]].path[s[2]] IN
        path.is_emp /\ path.emp_type # None /\ path.emp_time = Some(t) }

InsertedEmp(s) == EventOf(s[1], new_call.attackers[s[1]].path[s[2]])

SixFields(e) == <<e.path_id, e.x_coord, e.y_coord, e.radius, e.damage, e.attacker_id>>

\* C12: after a successful build a bucket holds one event per distinct
\* six-field value inserted into it: two insertions equal in path_id, x, y,
\* radius, damage and attacker_id give one stored event, two insertions that
\* differ in any field give two, and inserting a stored event again leaves the
\* registry unchanged.
C12_Deduplication ==
    (new_call.made /\ new_call.ret.ok) =>
      \A t \in 1..MaxMinute :
        /\ t \in DOMAIN emps <=> Insertions(t) # {}
        /\ t \in DOMAIN emps =>
             /\ \A s \in Insertions(t) : InsertedEmp(s) \in emps[t]
             /\ \A s1, s2 \in Insertions(t) :
                  SixFields(InsertedEmp(s1)) # SixFields(InsertedEmp(s2)) =>
                    \E e1, e2 \in emps[t] :
                      e1 # e2 /\ e1 = InsertedEmp(s1) /\ e2 = InsertedEmp(s2)
             /\ Cardinality(emps[t]) =
                  Cardinality({ SixFields(InsertedEmp(s)) : s \in Insertions(t) })
             /\ \A e \in emps[t] : InsertEmp(emps, t, e) = emps

\* a registry built from a path that visits one trigger twice, and a bucket
\* with two events that differ only in path_id, radius and damage
C12_Witness ==
    /\ new_call.made /\ new_call.ret.ok
    /\ \E t \in DOMAIN emps :
         /\ \E s1, s2 \in Insertions(t) :
              s1 # s2 /\ InsertedEmp(s1) = InsertedEmp(s2)
         /\ Cardinality(Insertions(t)) > Cardinality(emps[t])
    /\ \E t \in DOMAIN emps : \E e1, e2 \in emps[t] :
         /\ e1 # e2 /\ e1.x_coord = e2.x_coord /\ e1.y_coord = e2.y_coord
         /\ e1.attacker_id = e2.attacker_id

\* the clipped circular footprint of an event; a negative radius gives no cell
Footprint(emp) ==
    IF emp.radius < 0 THEN {} ELSE Disc(emp.x_coord, emp.y_coord, emp.radius)

\* the cells of the window some event of the call covers or some call names;
\* for every other cell each count below is zero on both sides
Touched ==
    UNION { Footprint(call.order[k]) : k \in 1..Len(call.order) }
      \cup { <<r.x, r.y>> : r \in SeqRange(call.def_calls) \cup SeqRange(call.att_calls) }

\* the indices of the get_damage(x, y) calls the Defense collaborator received
DefCallsAt(c) ==
    { i \in 1..Len(call.def_calls) : call.def_calls[i].x = c[1] /\ call.def_calls[i].y = c[2] }

\* C13: in a successful call the Defense collaborator's get_damage(x, y) is
\* invoked exactly once for each pair of a planted event of the minute and a
\* cell of that event's clipped circular footprint, and never otherwise: a cell
\* covered by k planted events receives exactly k calls, with or without a
\* defender on it.
C13_DefenderDamageCount ==
    (call.made /\ call.ret.ok) =>
      /\ \A k \in 1..Len(call.order) : \A c \in Touched :
           Cardinality({ i \in DefCallsAt(c) : call.def_calls[i].emp = call.order[k] })
             = IF ReportsPlanted(k) /\ c \in Footprint(call.order[k]) THEN 1 ELSE 0
      /\ \A c \in Touched :
           Cardinality(DefCallsAt(c))
             = Cardinality({ k \in 1..Len(call.order) :
                               ReportsPlanted(k) /\ c \in Footprint(call.order[k]) })
      /\ \A i \in 1..Len(call.def_calls) :
           \E k \in 1..Len(call.order) : call.def_calls[i].emp = call.order[k]

\* a successful call in which a cell without a defender lies in the footprints
\* of two planted events and a cell with a defender in the footprint of one
C13_Witness ==
    /\ call.made /\ call.ret.ok
    /\ \E c \in Touched :
         /\ c \notin DOMAIN call.pre.defenders
         /\ Cardinality(DefCallsAt(c)) = 2
    /\ \E c \in DOMAIN call.pre.defenders : Cardinality(DefCallsAt(c)) = 1

\* the indices of the get_damage calls attacker a received from emp for cell c
AttCallsOf(emp, a, c) ==
    { i \in 1..Len(call.att_calls) :
        /\ call.att_calls[i].emp = emp /\ call.att_calls[i].attacker = a
        /\ call.att_calls[i].x = c[1] /\ call.att_calls[i].y = c[2] }

\* C14: for each processed planted event every attacker of the roster, the
\* owner of the event included, receives get_damage with the event's damage
\* exactly once for each footprint cell that appears in its current-frame
\* trace, and no call for any other cell, so none at all when its trace holds
\* no footprint cell.
C14_UnitDamageDispatch ==
    call.made =>
      \A k \in 1..Len(call.order) :
        Processed(k) =>
          \A a \in DOMAIN call.pre.attackers : \A c \in Touched :
            /\ Cardinality(AttCallsOf(call.order[k], a, c))
                 = IF c \in Footprint(call.order[k]) /\ Matches(a, c[1], c[2]) # {}
                   THEN 1 ELSE 0
            /\ \A i \in AttCallsOf(call.order[k], a, c) :
                 call.att_calls[i].damage = call.order[k].damage

\* one processed event hit its owner and the other attacker, each on a cell of
\* its own trace, and another attacker-event pair had no call
C14_Witness ==
    /\ call.made
    /\ \E k \in 1..Len(call.order) :
         LET emp == call.order[k] IN
         /\ Processed(k)
         /\ \E c \in Touched : AttCallsOf(emp, emp.attacker_id, c) # {}
         /\ \E a \in DOMAIN call.pre.attackers \ {emp.attacker_id} :
              \E c \in Touched : AttCallsOf(emp, a, c) # {}
    /\ \E k \in 1..Len(call.order) : \E a \in DOMAIN call.pre.attackers :
         /\ Processed(k) /\ TraceOf(a) # <<>>
         /\ \A c \in Touched : AttCallsOf(call.order[k], a, c) = {}

\* C16: a call of Emps::simulate leaves the registry and the buildings grid as
\* they were, whatever it returns; the grid is only read, at the cells of the
\* footprints, and a cell reports the building id the grid held before the call.
C16_ReadOnly ==
    [][ (pc = "running" /\ call' # call /\ call'.made) =>
            /\ emps' = emps
            /\ buildings_grid' = buildings_grid
            /\ \A i \in 1..Len(call'.grid_reads) :
                 LET r == call'.grid_reads[i] IN
                 /\ InMap(r.x, r.y)
                 /\ r.id = buildings_grid[r.x][r.y] ]_vars

\* the second call of a run looked up cells holding a building and cells
\* holding none, after the first call had fired an event as well
C16_Witness ==
    /\ call.made /\ calls = 2
    /\ \E f \in history.fired : f.minute = 1
    /\ \E i, j \in 1..Len(call.grid_reads) :
         call.grid_reads[i].id # 0 /\ call.grid_reads[j].id = 0
    /\ emps = call.pre.emps /\ buildings_grid = call.pre.buildings_grid

\* C17: a processed event with a negative radius affects no cell; one with
\* radius 0 affects exactly its centre when the centre is on the map and no
\* cell when it is not; no event, wherever its centre lies, makes the call look
\* up the grid or call get_damage at a coordinate outside 0..MAP_SIZE-1.
C17_DegenerateFootprints ==
    call.made =>
      /\ \A k \in 1..Len(call.order) :
           LET emp == call.order[k]
               All == DefCells(emp) \cup AttCells(emp) \cup GridCells(emp) IN
           Processed(k) =>
             /\ emp.radius < 0 => All = {}
             /\ (emp.radius = 0 /\ InMap(emp.x_coord, emp.y_coord)) =>
                   /\ DefCells(emp) = { <<emp.x_coord, emp.y_coord>> }
                   /\ GridCells(emp) = { <<emp.x_coord, emp.y_coord>> }
                   /\ AttCells(emp) \subseteq { <<emp.x_coord, emp.y_coord>> }
             /\ (emp.radius = 0 /\ ~InMap(emp.x_coord, emp.y_coord)) => All = {}
      /\ \A r \in SeqRange(call.def_calls) \cup SeqRange(call.grid_reads) : InMap(r.x, r.y)
      /\ \A r \in SeqRange(call.att_calls) : InMap(r.x, r.y)

\* one call processed an event of radius -1, an event of radius 0 and an event
\* whose centre lies left of the map, whose footprint was clipped to the map
C17_Witness ==
    /\ call.made
    /\ \E k \in 1..Len(call.order) : Processed(k) /\ call.order[k].radius < 0
    /\ \E k \in 1..Len(call.order) :
         /\ Processed(k) /\ call.order[k].radius = 0
         /\ DefCells(call.order[k]) # {}
    /\ \E k \in 1..Len(call.order) :
         /\ Processed(k) /\ ~InMap(call.order[k].x_coord, call.order[k].y_coord)
         /\ DefCells(call.order[k]) # {}

\* the minute an event of the registry is scheduled for
ScheduledAt(e) == { t \in DOMAIN emps : e \in emps[t] }

\* C15: under a driver that resolves the minutes once each in increasing order,
\* an event has effects only in the call for the minute it is scheduled for,
\* so in at most one call; an event whose owner reported it unplanted in the
\* call of its minute has no effect in that call or in any later one, also
\* when its waypoint is planted by then.
C15_FireOnlyAtScheduledMinute ==
    /\ \A f \in history.fired :
         /\ ScheduledAt(f.emp) = { f.minute }
         /\ f.minute <= calls
    /\ \A f1, f2 \in history.fired : f1.emp = f2.emp => f1.minute = f2.minute
    /\ \A e \in history.skipped : \A f \in history.fired : f.emp # e
    /\ call.made =>
         /\ call.minute = calls
         /\ \A e \in EmpsWithEffect : e \in emps[call.minute]

\* an event was unplanted in the call of its minute, its waypoint was planted
\* when a later call started, that call fired another event and not this one
C15_Witness ==
    /\ call.made /\ call.ret.ok /\ call.minute = 2
    /\ \E f \in history.fired : f.minute = 2
    /\ \E e \in history.skipped :
         /\ ScheduledAt(e) = {1}
         /\ e.attacker_id \in DOMAIN call.pre.attackers
         /\ IsPlanted(call.pre.attackers[e.attacker_id], e.path_id).val
         /\ e.radius > 0
         /\ e \notin EmpsWithEffect

----------------------------------------------------------------------------
(* api/auth: the data the handlers work on *)

\* requests served in one run
MaxRequests == 3

\* a bcrypt hash, and bcrypt::verify(password, hash)
Hash(password) == <<"bcrypt", password>>

bcrypt_verify(password, hash) == hash = Hash(password)

\* a row of the user table; otp_session_id 0 stands for the empty string
User(id, username, is_pragyan, password, is_verified, phone) ==
    [id |-> id, username |-> username, is_pragyan |-> is_pragyan, password |-> password,
     is_verified |-> is_verified, phone |-> phone, otp_session_id |-> 0]

\* a verified app user, an app user who has not verified a phone, a Pragyan user
Users0 ==
    (1 :> User(1, "a", FALSE, Hash("p1"), TRUE, "ph1"))
      @@ (2 :> User(2, "b", FALSE, Hash("p2"), FALSE, "ph2"))
      @@ (3 :> User(3, "c", TRUE, "", TRUE, ""))

Usernames == { "a", "b", "c", "x" }
Passwords == { "p1", "p2" }
Phones == { "ph1", "ph2", "ph0" }
Recaptchas == { "good", "bad" }

\* the code the OTP provider sends, and the codes a client may submit:
\* of length 3, 4 (the code sent), 6 and 7
SentOtp == <<1, 2, 3, 4>>
Otps == { <<1, 2, 3>>, SentOtp, <<1, 2, 3, 4, 5, 6>>, <<1, 2, 3, 4, 5, 6, 7>> }

\* session.set(key, value) on the cookie session
SessionSet(s, key, value) ==
    [k \in DOMAIN s \cup {key} |-> IF k = key THEN value ELSE s[k]]

\* util::get_user_by_username, util::get_user: Option<User>
get_user_by_username(u, username) ==
    LET ids == { i \in DOMAIN u : u[i].username = username } IN
    IF ids = {} THEN None ELSE Some(u[CHOOSE i \in ids : TRUE])

get_user(u, user_id) == IF user_id \in DOMAIN u THEN Some(u[user_id]) ELSE None

\* util::get_user_with_phone: the verified user registered with the number;
\* sendotp looks up the caller's own number with it and expects None
get_user_with_phone(u, phone) ==
    LET ids == { i \in DOMAIN u : u[i].phone = phone /\ u[i].is_verified } IN
    IF ids = {} THEN None ELSE Some(u[CHOOSE i \in ids : TRUE])

\* util::get_pragyan_user: the id of the user with this email, inserted when new
get_pragyan_user(u, email) ==
    LET found == get_user_by_username(u, email)
        id == Cardinality(DOMAIN u) + 1 IN
    IF found # None THEN [id |-> found[1].id, users |-> u]
    ELSE [id |-> id, users |-> u @@ (id :> User(id, email, TRUE, "", TRUE, ""))]

get_otp_session_id(u, user_id) == u[user_id].otp_session_id

set_otp_session_id(u, user_id, details) == [u EXCEPT ![user_id].otp_session_id = details]

verify_user(u, user_id) == [u EXCEPT ![user_id].is_verified = TRUE]

\* util::reset_password(conn, phone_number, password)
reset_password(u, phone, password) ==
    [i \in DOMAIN u |->
        IF u[i].phone = phone /\ u[i].is_verified
        THEN [u[i] EXCEPT !.password = Hash(password)] ELSE u[i]]

\* otp::verify_recaptcha
verify_recaptcha(recaptcha) == recaptcha = "good"

\* otp::send_otp: the provider opens a session for the code it sends;
\* otp_sessions is the sequence of the codes sent, a session id its index
send_otp(o, accepted) ==
    IF accepted
    THEN [status |-> "Success", details |-> Len(o) + 1, otp_sessions |-> Append(o, SentOtp)]
    ELSE [status |-> "Error", details |-> 0, otp_sessions |-> o]

\* otp::verify_otp(session_id, otp): the details of the provider's answer
verify_otp(o, session_id, otp, expired) ==
    IF session_id \in 1..Len(o) /\ o[session_id] = otp
    THEN IF expired THEN "OTP Expired" ELSE "OTP Matched"
    ELSE "OTP Mismatch"

\* what a handler leaves behind: the session and tables, the response, the
\* collaborators it consulted with their answers, the session keys it set
Reply(session_, users_, otp_, status, body, seen, wrote) ==
    [session |-> session_, users |-> users_, otp_sessions |-> otp_,
     resp |-> [status |-> status, body |-> body], seen |-> seen, wrote |-> wrote]

\* error::handle_error
InternalError(st, seen) ==
    Reply(st.session, st.users, st.otp_sessions, 500, "Internal Server Error", seen, {})

\* one consulted collaborator: its name, a numeric argument, its answer
Seen(fn, arg, ans) == [fn |-> fn, arg |-> arg, ans |-> ans]

Bool(b) == IF b THEN "true" ELSE "false"

Faults == { "none", "read", "http", "write" }

\* session::get_unverified_user: the user id of the session, or an error
get_unverified_user(s, accepted) ==
    IF "user" \in DOMAIN s /\ accepted THEN [ok |-> TRUE, id |-> s.user]
    ELSE [ok |-> FALSE, id |-> 0]

----------------------------------------------------------------------------
(* api/auth: the handlers. st holds session, users and otp_sessions; req is
   the body of the request; env holds the answers of session::is_signed_in,
   session::get_unverified_user, pragyan::auth and the OTP provider, and the
   step that fails: a database read, an outgoing call or the final write *)

\* variant: the session is marked verified before user.is_verified is read
Login_FlagFirst(st, req, env) ==
    LET s0 == << Seen("is_signed_in", 0, Bool(env.signed_in)) >> IN
    IF env.signed_in
    THEN Reply(st.session, st.users, st.otp_sessions, 200, "Already signed in", s0, {})
    ELSE IF env.fault = "read" THEN InternalError(st, s0)
    ELSE
    LET user == get_user_by_username(st.users, req.username)
        s1 == Append(s0, Seen("get_user_by_username", 0, Bool(user # None))) IN
    IF user # None /\ ~user[1].is_pragyan /\ bcrypt_verify(req.password, user[1].password)
    THEN LET with_user == SessionSet(st.session, "user", user[1].id) IN
         IF user[1].is_verified
         THEN Reply(SessionSet(with_user, "is_verified", TRUE), st.users, st.otp_sessions,
                    200, "Successfully Logged In", s1, {"user", "is_verified"})
         ELSE Reply(SessionSet(with_user, "is_verified", TRUE), st.users, st.otp_sessions,
                    401, "App account not verified", s1, {"user", "is_verified"})
    ELSE IF env.fault = "http" THEN InternalError(st, s1)
    ELSE
    LET s2 == Append(s1, Seen("pragyan::auth", env.pragyan.status, Bool(env.pragyan.success))) IN
    IF env.pragyan.status = 200
    THEN IF env.pragyan.success
         THEN IF env.fault = "write" THEN InternalError(st, s2)
              ELSE LET r == get_pragyan_user(st.users, req.username) IN
                   Reply(SessionSet(SessionSet(st.session, "user", r.id), "is_verified", TRUE),
                         r.users, st.otp_sessions, 200, "Successfully Logged In",
                         s2, {"user", "is_verified"})
         ELSE InternalError(st, s2)
    ELSE IF env.pragyan.status = 203
    THEN Reply(st.session, st.users, st.otp_sessions, 401,
               "Pragyan account not verified", s2, {})
    ELSE Reply(st.session, st.users, st.otp_sessions, 401,
               "Invalid username/Pragyan email or password", s2, {})

\* login: mod.rs:60-126
Login(st, req, env) ==
    LET s0 == << Seen("is_signed_in", 0, Bool(env.signed_in)) >> IN
    IF env.signed_in
    THEN Reply(st.session, st.users, st.otp_sessions, 200, "Already signed in", s0, {})
    ELSE IF env.fault = "read" THEN InternalError(st, s0)
    ELSE
    LET user == get_user_by_username(st.users, req.username)
        s1 == Append(s0, Seen("get_user_by_username", 0, Bool(user # None))) IN
    IF user # None /\ ~user[1].is_pragyan /\ bcrypt_verify(req.password, user[1].password)
    THEN LET with_user == SessionSet(st.session, "user", user[1].id) IN
         IF user[1].is_verified
         THEN Reply(SessionSet(with_user, "is_verified", TRUE), st.users, st.otp_sessions,
                    200, "Successfully Logged In", s1, {"user", "is_verified"})
         ELSE Reply(with_user, st.users, st.otp_sessions,
                    401, "App account not verified", s1, {"user"})
    ELSE IF env.fault = "http" THEN InternalError(st, s1)
    ELSE
    LET s2 == Append(s1, Seen("pragyan::auth", env.pragyan.status, Bool(env.pragyan.success))) IN
    IF env.pragyan.status = 200
    THEN IF env.pragyan.success
         THEN IF env.fault = "write" THEN InternalError(st, s2)
              ELSE LET r == get_pragyan_user(st.users, req.username) IN
                   Reply(SessionSet(SessionSet(st.session, "user", r.id), "is_verified", TRUE),
                         r.users, st.otp_sessions, 200, "Successfully Logged In",
                         s2, {"user", "is_verified"})
         ELSE InternalError(st, s2)
    ELSE IF env.pragyan.status = 203
    THEN Reply(st.session, st.users, st.otp_sessions, 401,
               "Pragyan account not verified", s2, {})
    ELSE Reply(st.session, st.users, st.otp_sessions, 401,
               "Invalid username/Pragyan email or password", s2, {})

\* logout: mod.rs:128-131, session.clear()
Logout(st) == Reply(<<>>, st.users, st.otp_sessions, 204, "", <<>>, {})

\* sendotp: mod.rs:133-185
SendOtp(st, req, env) ==
    IF env.fault = "read" THEN InternalError(st, <<>>)
    ELSE
    LET caller == get_unverified_user(st.session, env.accepted)
        s0 == << Seen("get_unverified_user", caller.id, Bool(caller.ok)) >> IN
    IF ~caller.ok
    THEN Reply(st.session, st.users, st.otp_sessions, 401, "Unauthorized", s0, {})
    ELSE
    LET user == get_user(st.users, caller.id) IN
    IF user = None
    THEN Reply(st.session, st.users, st.otp_sessions, 400, "User not found", s0, {})
    ELSE IF user[1].is_verified
    THEN Reply(st.session, st.users, st.otp_sessions, 400, "Account already verified", s0, {})
    ELSE IF get_user_with_phone(st.users, user[1].phone) # None
    THEN Reply(st.session, st.users, st.otp_sessions, 400,
               "Phone number already registered", s0, {})
    ELSE IF env.fault = "http" THEN InternalError(st, s0)
    ELSE
    LET s1 == Append(s0, Seen("verify_recaptcha", 0, Bool(verify_recaptcha(req.recaptcha)))) IN
    IF ~verify_recaptcha(req.recaptcha)
    THEN Reply(st.session, st.users, st.otp_sessions, 401, "Invalid reCAPTCHA", s1, {})
    ELSE
    LET two_factor_response == send_otp(st.otp_sessions, env.sent)
        s2 == Append(s1, Seen("send_otp", two_factor_response.details,
                              two_factor_response.status)) IN
    IF two_factor_response.status = "Success"
    THEN IF env.fault = "write"
         THEN InternalError([st EXCEPT !.otp_sessions = two_factor_response.otp_sessions], s2)
         ELSE Reply(st.session,
                    set_otp_session_id(st.users, caller.id, two_factor_response.details),
                    two_factor_response.otp_sessions, 200, "OTP sent successfully", s2, {})
    ELSE Reply(st.session, st.users, st.otp_sessions, 400, "Invalid phone number", s2, {})

\* verify: mod.rs:187-236
Verify(st, req, env) ==
    IF Len(req.otp) < 4 \/ Len(req.otp) > 6
    THEN Reply(st.session, st.users, st.otp_sessions, 400, "Invalid OTP", <<>>, {})
    ELSE
    LET caller == get_unverified_user(st.session, env.accepted)
        s0 == << Seen("get_unverified_user", caller.id, Bool(caller.ok)) >> IN
    IF ~caller.ok
    THEN Reply(st.session, st.users, st.otp_sessions, 401, "Unauthorized", s0, {})
    ELSE IF env.fault = "read" THEN InternalError(st, s0)
    ELSE
    LET user == get_user(st.users, caller.id) IN
    IF user = None
    THEN Reply(st.session, st.users, st.otp_sessions, 400, "User not found", s0, {})
    ELSE IF env.fault = "http" THEN InternalError(st, s0)
    ELSE
    LET s1 == Append(s0, Seen("verify_recaptcha", 0, Bool(verify_recaptcha(req.recaptcha)))) IN
    IF ~verify_recaptcha(req.recaptcha)
    THEN Reply(st.session, st.users, st.otp_sessions, 401, "Invalid reCAPTCHA", s1, {})
    ELSE
    LET user_id == user[1].id
        session_id == get_otp_session_id(st.users, user_id)
        details == verify_otp(st.otp_sessions, session_id, req.otp, env.expired)
        s2 == Append(s1, Seen("verify_otp", session_id, details)) IN
    IF details = "OTP Matched"
    THEN IF env.fault = "write" THEN InternalError(st, s2)
         ELSE Reply(SessionSet(st.session, "is_verified", TRUE), verify_user(st.users, user_id),
                    st.otp_sessions, 200, "Account successfully verified", s2, {"is_verified"})
    ELSE IF details = "OTP Expired"
    THEN Reply(st.session, st.users, st.otp_sessions, 401, "OTP Expired", s2, {})
    ELSE Reply(st.session, st.users, st.otp_sessions, 401, "OTP Mismatch", s2, {})

\* send_resetpw_otp: mod.rs:238-278
SendResetPwOtp(st, req, env) ==
    IF env.fault = "read" THEN InternalError(st, <<>>)
    ELSE
    LET user == get_user_with_phone(st.users, req.phone_number)
        s0 == << Seen("get_user_with_phone", 0, Bool(user # None)) >> IN
    IF user = None
    THEN Reply(st.session, st.users, st.otp_sessions, 400, "Invalid phone number", s0, {})
    ELSE IF env.fault = "http" THEN InternalError(st, s0)
    ELSE
    LET s1 == Append(s0, Seen("verify_recaptcha", 0, Bool(verify_recaptcha(req.recaptcha)))) IN
    IF ~verify_recaptcha(req.recaptcha)
    THEN Reply(st.session, st.users, st.otp_sessions, 401, "Invalid reCAPTCHA", s1, {})
    ELSE
    LET two_factor_response == send_otp(st.otp_sessions, env.sent)
        s2 == Append(s1, Seen("send_otp", two_factor_response.details,
                              two_factor_response.status)) IN
    IF two_factor_response.status = "Success"
    THEN IF env.fault = "write"
         THEN InternalError([st EXCEPT !.otp_sessions = two_factor_response.otp_sessions], s2)
         ELSE Reply(st.session,
                    set_otp_session_id(st.users, user[1].id, two_factor_response.details),
                    two_factor_response.otp_sessions, 200, "OTP sent successfully", s2, {})
    ELSE Reply(st.session, st.users, st.otp_sessions, 400, "Invalid phone number", s2, {})

\* variant: the reCAPTCHA answer is read but not acted on
ResetPw_IgnoreRecaptcha(st, req, env) ==
    IF Len(req.otp) < 4 \/ Len(req.otp) > 6
    THEN Reply(st.session, st.users, st.otp_sessions, 400, "Invalid OTP", <<>>, {})
    ELSE IF env.fault = "read" THEN InternalError(st, <<>>)
    ELSE
    LET user == get_user_with_phone(st.users, req.phone_number)
        s0 == << Seen("get_user_with_phone", 0, Bool(user # None)) >> IN
    IF user = None
    THEN Reply(st.session, st.users, st.otp_sessions, 400, "Invalid phone number", s0, {})
    ELSE IF env.fault = "http" THEN InternalError(st, s0)
    ELSE
    LET s1 == Append(s0, Seen("verify_recaptcha", 0, Bool(verify_recaptcha(req.recaptcha))))
        user_id == user[1].id
        session_id == get_otp_session_id(st.users, user_id)
        details == verify_otp(st.otp_sessions, session_id, req.otp, env.expired)
        s2 == Append(s1, Seen("verify_otp", session_id, details)) IN
    IF details = "OTP Matched"
    THEN IF env.fault = "write" THEN InternalError(st, s2)
         ELSE Reply(st.session, reset_password(st.users, req.phone_number, req.password),
                    st.otp_sessions, 200, "Password reset successfully",
                    Append(s2, Seen("reset_password", user_id, "")), {})
    ELSE IF details = "OTP Expired"
    THEN Reply(st.session, st.users, st.otp_sessions, 401, "OTP Expired", s2, {})
    ELSE Reply(st.session, st.users, st.otp_sessions, 401, "OTP Mismatch", s2, {})

\* reset_pw: mod.rs:280-327
ResetPw(st, req, env) ==
    IF Len(req.otp) < 4 \/ Len(req.otp) > 6
    THEN Reply(st.session, st.users, st.otp_sessions, 400, "Invalid OTP", <<>>, {})
    ELSE IF env.fault = "read" THEN InternalError(st, <<>>)
    ELSE
    LET user == get_user_with_phone(st.users, req.phone_number)
        s0 == << Seen("get_user_with_phone", 0, Bool(user # None)) >> IN
    IF user = None
    THEN Reply(st.session, st.users, st.otp_sessions, 400, "Invalid phone number", s0, {})
    ELSE IF env.fault = "http" THEN InternalError(st, s0)
    ELSE
    LET s1 == Append(s0, Seen("verify_recaptcha", 0, Bool(verify_recaptcha(req.recaptcha)))) IN
    IF ~verify_recaptcha(req.recaptcha)
    THEN Reply(st.session, st.users, st.otp_sessions, 401, "Invalid reCAPTCHA", s1, {})
    ELSE
    LET user_id == user[1].id
        session_id == get_otp_session_id(st.users, user_id)
        details == verify_otp(st.otp_sessions, session_id, req.otp, env.expired)
        s2 == Append(s1, Seen("verify_otp", session_id, details)) IN
    IF details = "OTP Matched"
    THEN IF env.fault = "write" THEN InternalError(st, s2)
         ELSE Reply(st.session, reset_password(st.users, req.phone_number, req.password),
                    st.otp_sessions, 200, "Password reset successfully",
                    Append(s2, Seen("reset_password", user_id, "")), {})
    ELSE IF details = "OTP Expired"
    THEN Reply(st.session, st.users, st.otp_sessions, 401, "OTP Expired", s2, {})
    ELSE Reply(st.session, st.users, st.otp_sessions, 401, "OTP Mismatch", s2, {})

----------------------------------------------------------------------------
(* api/auth: one client and its cookie session against the service *)

NoRequest ==
    [made |-> FALSE, n |-> 0, op |-> "", req |-> <<>>,
     resp |-> [status |-> 0, body |-> ""], seen |-> <<>>, wrote |-> {}]

InitAuth ==
    /\ pc = "auth"
    /\ attackers = <<>> /\ defenders = <<>> /\ buildings_grid = <<>> /\ emps = <<>>
    /\ new_call = NoCall /\ call = NoCall /\ calls = 0 /\ history = NoHistory
    /\ session = <<>>
    /\ users = Users0
    /\ otp_sessions = <<>>
    /\ last = NoRequest

AuthState == [session |-> session, users |-> users, otp_sessions |-> otp_sessions]

\* the answers session::is_signed_in and session::get_unverified_user may give
SessionAnswers == IF "user" \in DOMAIN session THEN BOOLEAN ELSE { FALSE }

\* the answers of pragyan::auth: status code and whether the message is Success
PragyanAnswers ==
    { [status |-> 200, success |-> TRUE], [status |-> 200, success |-> FALSE],
      [status |-> 203, success |-> FALSE], [status |-> 401, success |-> FALSE] }

\* the reply of a handler becomes the state, and the request is remembered
Serve(op, req, r) ==
    /\ session' = r.session
    /\ users' = r.users
    /\ otp_sessions' = r.otp_sessions
    /\ last' = [made |-> TRUE, n |-> last.n + 1, op |-> op, req |-> req,
                resp |-> r.resp, seen |-> r.seen, wrote |-> r.wrote]
    /\ UNCHANGED emp_vars

PostLogin ==
    /\ pc = "auth" /\ last.n < MaxRequests
    /\ \E username \in Usernames, password \in Passwords, signed_in \in SessionAnswers,
          pragyan \in PragyanAnswers, fault \in Faults :
          LET req == [username |-> username, password |-> password] IN
          Serve("login", req,
                Login(AuthState, req,
                      [signed_in |-> signed_in, pragyan |-> pragyan, fault |-> fault]))

PostLogout ==
    /\ pc = "auth" /\ last.n < MaxRequests
    /\ Serve("logout", <<>>, Logout(AuthState))

PostSendOtp ==
    /\ pc = "auth" /\ last.n < MaxRequests
    /\ \E recaptcha \in Recaptchas, accepted \in SessionAnswers, sent \in BOOLEAN,
          fault \in Faults :
          LET req == [recaptcha |-> recaptcha] IN
          Serve("sendotp", req,
                SendOtp(AuthState, req, [accepted |-> accepted, sent |-> sent, fault |-> fault]))

PostVerify ==
    /\ pc = "auth" /\ last.n < MaxRequests
    /\ \E otp \in Otps, recaptcha \in Recaptchas, accepted \in SessionAnswers,
          expired \in BOOLEAN, fault \in Faults :
          LET req == [otp |-> otp, recaptcha |-> recaptcha] IN
          Serve("verify", req,
                Verify(AuthState, req,
                       [accepted |-> accepted, expired |-> expired, fault |-> fault]))

PostSendResetPwOtp ==
    /\ pc = "auth" /\ last.n < MaxRequests
    /\ \E phone_number \in Phones, recaptcha \in Recaptchas, sent \in BOOLEAN,
          fault \in Faults :
          LET req == [phone_number |-> phone_number, recaptcha |-> recaptcha] IN
          Serve("send_resetpw_otp", req,
                SendResetPwOtp(AuthState, req, [sent |-> sent, fault |-> fault]))

PostResetPw ==
    /\ pc = "auth" /\ last.n < MaxRequests
    /\ \E phone_number \in Phones, otp \in Otps, recaptcha \in Recaptchas,
          expired \in BOOLEAN, fault \in Faults :
          LET req == [phone_number |-> phone_number, otp |-> otp, password |-> "p3",
                      recaptcha |-> recaptcha] IN
          Serve("reset_pw", req,
                ResetPw(AuthState, req, [expired |-> expired, fault |-> fault]))

NextAuth ==
    \/ PostLogin \/ PostLogout \/ PostSendOtp \/ PostVerify
    \/ PostSendResetPwOtp \/ PostResetPw

SpecAuth == InitAuth /\ [][NextAuth]_vars

\* a request was served in this step
Served == last'.n = last.n + 1

\* the app users whose stored hash matches the credentials of the login request
AppUsersOf(req) ==
    { u \in DOMAIN users :
        /\ users[u].username = req.username
        /\ ~users[u].is_pragyan
        /\ bcrypt_verify(req.password, users[u].password) }

\* the collaborator fn gave the answer ans at position i of the request's record
Answered(i, fn, ans) ==
    /\ i \in 1..Len(last'.seen)
    /\ last'.seen[i].fn = fn
    /\ last'.seen[i].ans = ans

C19_ResetOrdering ==
    [][ Served =>
          LET req == last'.req
              changed == \E u \in DOMAIN users : users'[u].password # users[u].password
              len_ok == Len(req.otp) >= 4 /\ Len(req.otp) <= 6
              user == get_user_with_phone(users, req.phone_number)
              no_fault == last'.resp.status # 500 IN
          /\ changed => last'.op = "reset_pw"
          /\ last'.op = "reset_pw" =>
               /\ last'.resp.status = 200 =>
                    /\ len_ok
                    /\ user # None
                    /\ verify_recaptcha(req.recaptcha)
                    /\ Len(last'.seen) = 4
                    /\ Answered(1, "get_user_with_phone", "true")
                    /\ Answered(2, "verify_recaptcha", "true")
                    /\ Answered(3, "verify_otp", "OTP Matched")
                    /\ last'.seen[3].arg = users[user[1].id].otp_session_id
                    /\ last'.seen[3].arg \in 1..Len(otp_sessions)
                    /\ otp_sessions[last'.seen[3].arg] = req.otp
                    /\ Answered(4, "reset_password", "")
                    /\ users' = reset_password(users, req.phone_number, req.password)
               /\ last'.resp.status # 200 => users' = users
               /\ ~len_ok =>
                    /\ last'.resp = [status |-> 400, body |-> "Invalid OTP"]
                    /\ last'.seen = <<>>
               /\ (len_ok /\ no_fault /\ user = None) =>
                    /\ last'.resp = [status |-> 400, body |-> "Invalid phone number"]
                    /\ Len(last'.seen) = 1
               /\ (len_ok /\ no_fault /\ user # None /\ ~verify_recaptcha(req.recaptcha)) =>
                    /\ last'.resp = [status |-> 401, body |-> "Invalid reCAPTCHA"]
                    /\ Len(last'.seen) = 2
               /\ ( /\ len_ok /\ no_fault /\ user # None /\ verify_recaptcha(req.recaptcha)
                    /\ ~Answered(3, "verify_otp", "OTP Matched") ) =>
                    /\ last'.resp.status = 401
                    /\ last'.resp.body \in { "OTP Expired", "OTP Mismatch" }
                    /\ last'.resp.body = last'.seen[3].ans
      ]_vars

\* a password was reset with the OTP sent to the phone of its user
C19_Witness ==
    /\ last.made /\ last.op = "reset_pw" /\ last.resp.status = 200
    /\ users[1].password = Hash("p3")
    /\ users[1].otp_session_id \in 1..Len(otp_sessions)
    /\ last.req.otp = otp_sessions[users[1].otp_session_id]

====
